---- MODULE Spec2Model ----
(***************************************************************************)
(* A model of CreateCustomFolder.py: the legend parser read_legend, the    *)
(* folder namer create_folder and the "Create Folder" button handler of    *)
(* the Streamlit script.                                                   *)
(*                                                                         *)
(* Python strings are sequences of one-character strings, so that          *)
(* str.strip() and "_".join() are computed and not assumed.  Row and       *)
(* column indices are Python's (0-based).                                  *)
(***************************************************************************)
EXTENDS Integers, Sequences, FiniteSets

\* ------------------------------------------------------------------ bounds
\* Largest number of data rows of a generated sheet.
MaxRows == 3
\* Largest number of columns of a generated sheet.
MaxCols == 3
\* Largest number of "Create Folder" presses followed in one behaviour.
MaxClicks == 2
\* Largest number of direct create_folder calls followed in one behaviour.
MaxCalls == 2

\* ----------------------------------------------------------------- strings
FrameVersion == <<"F", "r", "a", "m", "e", " ", "V", "e", "r", "s", "i", "o", "n">>
CoreVersion == <<"C", "o", "r", "e", " ", "V", "e", "r", "s", "i", "o", "n">>
GasketVersion == <<"G", "a", "s", "k", "e", "t", " ", "V", "e", "r", "s", "i", "o", "n">>
Pump == <<"P", "u", "m", "p">>
DeviceName == <<"D", "e", "v", "i", "c", "e", " ", "N", "a", "m", "e">>
Coolant == <<"C", "o", "o", "l", "a", "n", "t">>
OCCTVersion == <<"O", "C", "C", "T", " ", "V", "e", "r", "s", "i", "o", "n">>
OCCTTestSetting == <<"O", "C", "C", "T", " ", "T", "e", "s", "t", " ", "S", "e", "t", "t", "i", "n", "g">>
FanSettings == <<"F", "a", "n", " ", "S", "e", "t", "t", "i", "n", "g", "s">>
CPUModel == <<"C", "P", "U", " ", "m", "o", "d", "e", "l">>
Abbreviation == <<"A", "b", "b", "r", "e", "v", "i", "a", "t", "i", "o", "n">>
Abbrevation == <<"A", "b", "b", "r", "e", "v", "a", "t", "i", "o", "n">>
QuestionMark == <<"?">>
Underscore == <<"_">>
Slash == <<"/">>
EmptyStr == <<>>

\* ---------------------------------------------------------- Python helpers
\* The characters str.strip() removes (those that occur in the inputs).
Whitespace == {" ", "\t", "\n"}

RECURSIVE lstrip(_)
lstrip(s) ==
    IF s = <<>> THEN s
    ELSE IF Head(s) \in Whitespace THEN lstrip(Tail(s)) ELSE s

RECURSIVE rstrip(_)
rstrip(s) ==
    IF s = <<>> THEN s
    ELSE IF s[Len(s)] \in Whitespace THEN rstrip(SubSeq(s, 1, Len(s) - 1)) ELSE s

\* str.strip()
strip(s) == rstrip(lstrip(s))

\* sep.join(parts)
RECURSIVE join(_, _)
join(sep, parts) ==
    IF parts = <<>> THEN <<>>
    ELSE IF Len(parts) = 1 THEN parts[1]
    ELSE parts[1] \o sep \o join(sep, Tail(parts))

\* ------------------------------------------------------------------- cells
\* A cell of the DataFrame: a str, a missing value (NaN) or a number; s is
\* what str() gives for it.
StrCell(s) == [kind |-> "str", s |-> s]
NaN == [kind |-> "nan", s |-> <<"n", "a", "n">>]
Num7 == [kind |-> "num", s |-> <<"7">>]

\* pd.isna(v) / pd.notna(v)
isna(v) == v.kind = "nan"
notna(v) == ~isna(v)
\* isinstance(v, str)
isstr(v) == v.kind = "str"
\* str(v)
str(v) == v.s
\* v != "?"   (a str equals "?" only when it is exactly that string)
NotQuestionMark(v) == ~(isstr(v) /\ v.s = QuestionMark)

\* ------------------------------------------------------------------ config
TARGET_WITH_ABBREVIATION == {FrameVersion, CoreVersion, GasketVersion, Pump}
SECOND_BLANK_STOP == {FrameVersion, CoreVersion, GasketVersion}
\* (variant: Pump is left out of the first-blank set)
FIRST_BLANK_STOP_NoPump == {DeviceName, Coolant}
FIRST_BLANK_STOP == {DeviceName, Coolant, Pump}
TARGET_WITHOUT_ABBREVIATION == {DeviceName, Coolant}
SKIP == {OCCTVersion, OCCTTestSetting, FanSettings, CPUModel}
\* (variant: the misspelled header is not accepted)
candidatesExact == {Abbreviation}
candidates == {Abbreviation, Abbrevation}

\* ------------------------------------------------------------------ sheets
\* The rows a generated sheet is made of, as (column A, column B, column C).
\* A sheet narrower than a row keeps the row's first cells; a wider one is
\* padded with missing cells.
RowKinds ==
    { <<NaN, StrCell(FrameVersion), StrCell(Abbreviation)>>,
      <<StrCell(Abbrevation), StrCell(<<" ">> \o CoreVersion \o <<" ">>),
        StrCell(<<" ">> \o Abbreviation \o <<" ">>)>>,
      <<StrCell(<<" ">> \o Abbrevation), StrCell(GasketVersion), NaN>>,
      <<Num7, StrCell(Pump), StrCell(Abbrevation)>>,
      <<NaN, StrCell(DeviceName), StrCell(QuestionMark)>>,
      <<StrCell(<<"a">>), StrCell(<<" ">> \o Coolant), NaN>>,
      <<NaN, StrCell(OCCTVersion), StrCell(<<"v">>)>>,
      <<StrCell(<<" ">>), NaN, StrCell(EmptyStr)>>,
      <<StrCell(<<"a">>), StrCell(<<" ", "b", " ">>), Num7>>,
      <<StrCell(QuestionMark), StrCell(<<" ", "?", " ">>), StrCell(QuestionMark)>>,
      <<StrCell(<<" ", "?", " ">>), StrCell(QuestionMark), NaN>> }

FitRow(kind, w) == [c \in 1..w |-> IF c <= Len(kind) THEN kind[c] ELSE NaN]

\* The sheet of width w whose rows are the kinds f[1], f[2], ...
Sheet(w, f) == [ncols |-> w, rows |-> [r \in DOMAIN f |-> FitRow(f[r], w)]]

\* The sheet of the specification's scenario: column B holds
\* Device Name, Alpha, (blank), Coolant, X, ?, Y, (blank); column A is unused.
ScenarioColumn ==
    << StrCell(DeviceName), StrCell(<<"A", "l", "p", "h", "a">>), NaN,
       StrCell(Coolant), StrCell(<<"X">>), StrCell(QuestionMark),
       StrCell(<<"Y">>), NaN >>

ScenarioSheet ==
    [ncols |-> 2, rows |-> [r \in 1..Len(ScenarioColumn) |-> <<NaN, ScenarioColumn[r]>>]]

\* A longer sheet with a two-blank section: Frame Version reads column C,
\* which holds v1, (blank), v2, (blank), v3 below the marker row, while
\* column B goes on with other sections.
BlankRunSheet ==
    [ncols |-> 3,
     rows |-> << <<NaN, StrCell(FrameVersion), StrCell(Abbreviation)>>,
                 <<NaN, StrCell(<<"x">>), StrCell(<<"v", "1">>)>>,
                 <<NaN, StrCell(DeviceName), NaN>>,
                 <<NaN, NaN, StrCell(<<"v", "2">>)>>,
                 <<NaN, StrCell(Coolant), StrCell(EmptyStr)>>,
                 <<NaN, StrCell(<<"c", "1">>), StrCell(<<"v", "3">>)>> >>]

\* df is one of the generated sheets or one of the two longer sheets.
IsSheet(d) ==
    \/ \E w \in 0..MaxCols : \E len \in 0..MaxRows : \E f \in [1..len -> RowKinds] :
           d = Sheet(w, f)
    \/ d = ScenarioSheet
    \/ d = BlankRunSheet

\* ------------------------------------------------------------------- state
VARIABLES
    df,           \* the DataFrame read from the sheet
    pc,           \* where read_legend stands
    i, n,         \* the outer cursor and the row count
    results,      \* the dict being built, in insertion order
    current_cat, use_col, vals, blank_seen, j,   \* the run being scanned
    error,        \* the ValueError raised, if any
    returned,     \* the value returned, if any
    visited,      \* the rows whose column-B cell the outer loop has read
    runs,         \* the runs stored so far
    OPTIONS, selections, time_input, server_input, out_dir, message, clicks,
    fs,           \* the directories that exist
    last_call, last_ret, calls

legendVars == <<df, pc, i, n, results, current_cat, use_col, vals, blank_seen, j,
                error, returned, visited, runs>>
shellVars == <<OPTIONS, selections, time_input, server_input, out_dir, message, clicks>>
folderVars == <<last_call, last_ret, calls>>
vars == <<legendVars, shellVars, folderVars, fs>>

\* ------------------------------------------------------------- read_legend
col_B == 1

\* df.at[r, c]
At(r, c) == df.rows[r + 1][c + 1]

\* cell_str of row r
CellStr(r) == IF notna(At(r, col_B)) THEN strip(str(At(r, col_B))) ELSE EmptyStr

\* (variant: the SKIP names are taken for categories)
IsTargetOrSkip(cell_str) ==
    cell_str \in TARGET_WITH_ABBREVIATION \cup TARGET_WITHOUT_ABBREVIATION \cup SKIP

IsTarget(cell_str) == cell_str \in TARGET_WITH_ABBREVIATION \cup TARGET_WITHOUT_ABBREVIATION

\* next((idx for idx, v in enumerate(row_values) if ...), None); None is -1
RECURSIVE AbbrevFrom(_, _)
AbbrevFrom(row_values, idx) ==
    IF idx >= Len(row_values) THEN -1
    ELSE IF isstr(row_values[idx + 1]) /\ strip(row_values[idx + 1].s) \in candidates
         THEN idx
         ELSE AbbrevFrom(row_values, idx + 1)

\* (variant: next(..., 0), the first column when no header is found)
AbbrevIndexOrFirst(row_values) ==
    IF AbbrevFrom(row_values, 0) = -1 THEN 0 ELSE AbbrevFrom(row_values, 0)

AbbrevIndex(row_values) == AbbrevFrom(row_values, 0)

\* pd.isna(v) or str(v).strip() == ""
IsBlank(v) == isna(v) \/ strip(str(v)) = EmptyStr

\* (variant: every category stops at its first blank)
StopsRunAtFirstBlank(cat, blanks) == blanks >= 1

\* the break condition of the inner loop, after blank_seen += 1
StopsRun(cat, blanks) ==
    (blanks = 2 /\ cat \in SECOND_BLANK_STOP) \/ (cat \in FIRST_BLANK_STOP)

\* the column-count test
TooFewColumns(d) == d.ncols < 2

\* results[key] = value on an insertion-ordered dict
RECURSIVE DictSet(_, _, _)
DictSet(d, key, value) ==
    IF d = <<>> THEN << [key |-> key, vals |-> value] >>
    ELSE IF d[1].key = key THEN << [key |-> key, vals |-> value] >> \o Tail(d)
    ELSE << d[1] >> \o DictSet(Tail(d), key, value)

NoError == [raised |-> FALSE, what |-> "", row |-> -1]
NoReturn == [done |-> FALSE, value |-> <<>>]

LegendInit ==
    /\ IsSheet(df)
    /\ pc = "start"
    /\ i = 0 /\ n = 0 /\ j = 0
    /\ results = <<>>
    /\ current_cat = EmptyStr /\ use_col = col_B /\ vals = <<>> /\ blank_seen = 0
    /\ error = NoError /\ returned = NoReturn
    /\ visited = {} /\ runs = <<>>

LegendIdle ==
    /\ df = [ncols |-> 0, rows |-> <<>>]
    /\ pc = "idle"
    /\ i = 0 /\ n = 0 /\ j = 0
    /\ results = <<>>
    /\ current_cat = EmptyStr /\ use_col = col_B /\ vals = <<>> /\ blank_seen = 0
    /\ error = NoError /\ returned = NoReturn
    /\ visited = {} /\ runs = <<>>

\* lines 27-33
CheckColumns ==
    /\ pc = "start"
    /\ IF TooFewColumns(df)
       THEN /\ pc' = "error"
            /\ error' = [raised |-> TRUE, what |-> "columns", row |-> -1]
            /\ UNCHANGED <<i, n, results>>
       ELSE /\ pc' = "outer"
            /\ i' = 0 /\ n' = Len(df.rows) /\ results' = <<>>
            /\ UNCHANGED error
    /\ UNCHANGED <<df, current_cat, use_col, vals, blank_seen, j, returned, visited, runs>>
    /\ UNCHANGED <<shellVars, folderVars, fs>>

\* line 35 false, line 78
Return ==
    /\ pc = "outer" /\ ~(i < n)
    /\ pc' = "done"
    /\ returned' = [done |-> TRUE, value |-> results]
    /\ UNCHANGED <<df, i, n, results, current_cat, use_col, vals, blank_seen, j,
                   error, visited, runs>>
    /\ UNCHANGED <<shellVars, folderVars, fs>>

\* lines 35-56, a category row whose value column is found
BeginRun ==
    /\ pc = "outer" /\ i < n
    /\ IsTarget(CellStr(i))
    /\ CellStr(i) \in TARGET_WITH_ABBREVIATION => AbbrevIndex(df.rows[i + 1]) # -1
    /\ current_cat' = CellStr(i)
    /\ use_col' = IF CellStr(i) \in TARGET_WITH_ABBREVIATION
                  THEN AbbrevIndex(df.rows[i + 1])
                  ELSE col_B
    /\ vals' = <<>> /\ blank_seen' = 0 /\ j' = i + 1
    /\ visited' = visited \cup {i}
    /\ pc' = "inner"
    /\ UNCHANGED <<df, i, n, results, error, returned, runs>>
    /\ UNCHANGED <<shellVars, folderVars, fs>>

\* lines 35-51, a with-abbreviation row without the header
RaiseNoAbbreviation ==
    /\ pc = "outer" /\ i < n
    /\ CellStr(i) \in TARGET_WITH_ABBREVIATION
    /\ AbbrevIndex(df.rows[i + 1]) = -1
    /\ current_cat' = CellStr(i)
    /\ visited' = visited \cup {i}
    /\ pc' = "error"
    /\ error' = [raised |-> TRUE, what |-> "abbreviation", row |-> i]
    /\ UNCHANGED <<df, i, n, results, use_col, vals, blank_seen, j, returned, runs>>
    /\ UNCHANGED <<shellVars, folderVars, fs>>

\* lines 72-74
SkipRow ==
    /\ pc = "outer" /\ i < n
    /\ ~IsTarget(CellStr(i))
    /\ CellStr(i) \in SKIP
    /\ i' = i + 1
    /\ visited' = visited \cup {i}
    /\ UNCHANGED <<df, pc, n, results, current_cat, use_col, vals, blank_seen, j,
                   error, returned, runs>>
    /\ UNCHANGED <<shellVars, folderVars, fs>>

\* line 76
OtherRow ==
    /\ pc = "outer" /\ i < n
    /\ ~IsTarget(CellStr(i))
    /\ CellStr(i) \notin SKIP
    /\ i' = i + 1
    /\ visited' = visited \cup {i}
    /\ UNCHANGED <<df, pc, n, results, current_cat, use_col, vals, blank_seen, j,
                   error, returned, runs>>
    /\ UNCHANGED <<shellVars, folderVars, fs>>

\* (variant: the outer loop resumes after the stop row)
ResumeAfter(stop) == stop + 1

\* the row the outer loop resumes at after a run that stopped at row stop
ResumeAt(stop) == stop

\* lines 68-70: store the run and reposition the outer cursor
StoreRun ==
    /\ results' = DictSet(results, current_cat, vals)
    /\ i' = ResumeAt(j)
    /\ runs' = Append(runs, [marker |-> i, stop |-> j, cat |-> current_cat,
                             col |-> use_col, vals |-> vals])
    /\ pc' = "outer"

\* lines 57-62: a blank cell; it may end the run
InnerBlank ==
    /\ pc = "inner" /\ j < n
    /\ IsBlank(At(j, use_col))
    /\ blank_seen' = blank_seen + 1
    /\ IF StopsRun(current_cat, blank_seen + 1)
       THEN StoreRun /\ UNCHANGED j
       ELSE j' = j + 1 /\ UNCHANGED <<pc, i, results, runs>>
    /\ UNCHANGED <<df, n, current_cat, use_col, vals, error, returned, visited>>
    /\ UNCHANGED <<shellVars, folderVars, fs>>

\* lines 57-66: a cell that is not blank
InnerValue ==
    /\ pc = "inner" /\ j < n
    /\ ~IsBlank(At(j, use_col))
    /\ vals' = IF NotQuestionMark(At(j, use_col))
               THEN Append(vals, strip(str(At(j, use_col))))
               ELSE vals
    /\ j' = j + 1
    /\ UNCHANGED <<df, pc, i, n, results, current_cat, use_col, blank_seen,
                   error, returned, visited, runs>>
    /\ UNCHANGED <<shellVars, folderVars, fs>>

\* line 57 false: the run reached the end of the table
InnerExit ==
    /\ pc = "inner" /\ ~(j < n)
    /\ StoreRun
    /\ UNCHANGED <<df, n, current_cat, use_col, vals, blank_seen, j, error,
                   returned, visited>>
    /\ UNCHANGED <<shellVars, folderVars, fs>>

LegendNext ==
    \/ CheckColumns
    \/ Return
    \/ BeginRun
    \/ RaiseNoAbbreviation
    \/ SkipRow
    \/ OtherRow
    \/ InnerBlank
    \/ InnerValue
    \/ InnerExit

\* ----------------------------------------------------------- create_folder
\* The components of a POSIX path, empty ones ("//", a trailing "/") dropped.
RECURSIVE SplitAcc(_, _, _)
SplitAcc(rest, cur, acc) ==
    IF rest = <<>> THEN (IF cur = <<>> THEN acc ELSE Append(acc, cur))
    ELSE IF Head(rest) = "/"
         THEN SplitAcc(Tail(rest), <<>>, IF cur = <<>> THEN acc ELSE Append(acc, cur))
         ELSE SplitAcc(Tail(rest), Append(cur, Head(rest)), acc)

\* The directory a path names.
Dir(path) == [abs |-> path # <<>> /\ path[1] = "/", comps |-> SplitAcc(path, <<>>, <<>>)]

\* os.path.join(base_dir, folder_name)
PathJoin(base_dir, folder_name) ==
    IF folder_name # <<>> /\ folder_name[1] = "/" THEN folder_name
    ELSE IF base_dir = <<>> \/ base_dir[Len(base_dir)] = "/" THEN base_dir \o folder_name
    ELSE base_dir \o Slash \o folder_name

\* (variant: os.makedirs without exist_ok)
ExistNotOk == FALSE

\* the exist_ok argument passed to os.makedirs
ExistOk == TRUE

\* os.makedirs(path, exist_ok): the leaf and every missing ancestor are made;
\* oserror is the operating system refusing (permission, disk full).
Makedirs(fsys, path, exist_ok, oserror) ==
    LET d == Dir(path)
        chain == { [abs |-> d.abs, comps |-> SubSeq(d.comps, 1, k)] : k \in 1..Len(d.comps) }
    IN  IF oserror THEN [raised |-> TRUE, fs |-> fsys]
        ELSE IF d \in fsys /\ ~exist_ok THEN [raised |-> TRUE, fs |-> fsys]
        ELSE [raised |-> FALSE, fs |-> fsys \cup chain]

\* folder_name
FolderName(sels, time_str, server_str) ==
    join(Underscore, sels \o << strip(time_str), strip(server_str) >>)

create_folder(fsys, base_dir, sels, time_str, server_str, oserror) ==
    LET full_path == PathJoin(base_dir, FolderName(sels, time_str, server_str))
        made == Makedirs(fsys, full_path, ExistOk, oserror)
    IN  [raised |-> made.raised, path |-> full_path, fs |-> made.fs]

\* ------------------------------------------------------------- script body
Alpha == <<"A", "l", "p", "h", "a">>
ScenarioTime == <<" ", "2", "0", "2", "5", "-", "0", "7", "-", "2", "3", "_", "1", "4", "-", "0", "0", " ">>
ScenarioServer == <<"S", "e", "r", "v", "e", "r", "0", "1", " ">>

\* Legend mappings read_legend returns, as OPTIONS of the script.
LegendSamples ==
    { <<>>,
      << [key |-> DeviceName, vals |-> <<Alpha>>],
         [key |-> Coolant, vals |-> << <<"X">>, <<"Y">> >>] >>,
      << [key |-> Pump, vals |-> <<>>] >>,
      << [key |-> FrameVersion, vals |-> << <<"a">> >>] >> }

TimeInputs == { EmptyStr, <<" ">>, ScenarioTime }
ServerInputs == { EmptyStr, <<" ", " ">>, ScenarioServer }
OutDirs == { <<"/", "d">>, <<"o", "/">> }
default_desktop == <<"/", "d">>

Range(f) == { f[x] : x \in DOMAIN f }

\* the options of selector k: [""] + OPTIONS[label]
SelectboxOptions(k) == {EmptyStr} \cup Range(OPTIONS[k].vals)

\* (variant: the server field is not tested)
IncompleteNoServer(sel, time_str, server_str) ==
    \/ EmptyStr \in Range(sel)
    \/ strip(time_str) = EmptyStr

\* the test of the button handler
Incomplete(sel, time_str, server_str) ==
    \/ EmptyStr \in Range(sel)
    \/ strip(time_str) = EmptyStr
    \/ strip(server_str) = EmptyStr

NoMessage == [kind |-> "", path |-> <<>>]

ShellInit ==
    /\ OPTIONS \in LegendSamples
    /\ selections = [k \in 1..Len(OPTIONS) |-> EmptyStr]
    /\ time_input = EmptyStr /\ server_input = EmptyStr
    /\ out_dir = default_desktop
    /\ message = NoMessage
    /\ clicks = 0

ShellIdle ==
    /\ OPTIONS = <<>> /\ selections = <<>>
    /\ time_input = EmptyStr /\ server_input = EmptyStr
    /\ out_dir = default_desktop
    /\ message = NoMessage
    /\ clicks = -1

ShellOn == clicks >= 0

\* line 107: the base directory is edited; the script reruns, the button is not pressed
EnterOutDir ==
    /\ ShellOn
    /\ \E d \in OutDirs : out_dir' = d
    /\ message' = NoMessage
    /\ UNCHANGED <<OPTIONS, selections, time_input, server_input, clicks>>
    /\ UNCHANGED <<legendVars, folderVars, fs>>

\* lines 123-125: a selector is changed
Select ==
    /\ ShellOn /\ OPTIONS # <<>>
    /\ \E k \in 1..Len(OPTIONS) : \E choice \in SelectboxOptions(k) :
           selections' = [selections EXCEPT ![k] = choice]
    /\ message' = NoMessage
    /\ UNCHANGED <<OPTIONS, time_input, server_input, out_dir, clicks>>
    /\ UNCHANGED <<legendVars, folderVars, fs>>

\* line 131
EnterTime ==
    /\ ShellOn /\ OPTIONS # <<>>
    /\ \E t \in TimeInputs : time_input' = t
    /\ message' = NoMessage
    /\ UNCHANGED <<OPTIONS, selections, server_input, out_dir, clicks>>
    /\ UNCHANGED <<legendVars, folderVars, fs>>

\* line 132
EnterServer ==
    /\ ShellOn /\ OPTIONS # <<>>
    /\ \E t \in ServerInputs : server_input' = t
    /\ message' = NoMessage
    /\ UNCHANGED <<OPTIONS, selections, time_input, out_dir, clicks>>
    /\ UNCHANGED <<legendVars, folderVars, fs>>

\* lines 135-143: the button is pressed
ClickCreate ==
    /\ ShellOn /\ OPTIONS # <<>>
    /\ clicks < MaxClicks
    /\ clicks' = clicks + 1
    /\ IF Incomplete(selections, time_input, server_input)
       THEN /\ message' = [kind |-> "warning", path |-> <<>>]
            /\ UNCHANGED fs
       ELSE \E oserror \in BOOLEAN :
              LET made == create_folder(fs, out_dir, selections, time_input,
                                        server_input, oserror)
              IN  IF made.raised
                  THEN /\ message' = [kind |-> "error", path |-> <<>>]
                       /\ UNCHANGED fs
                  ELSE /\ message' = [kind |-> "success", path |-> made.path]
                       /\ fs' = made.fs
    /\ UNCHANGED <<OPTIONS, selections, time_input, server_input, out_dir>>
    /\ UNCHANGED <<legendVars, folderVars>>

ShellNext ==
    \/ EnterOutDir
    \/ Select
    \/ EnterTime
    \/ EnterServer
    \/ ClickCreate

\* ------------------------------------------------- create_folder, directly
SelectionLists == { <<Alpha, <<"X">> >>, <<>>, << <<"a", "/", "b">> >> }
BaseDirs == { <<"/", "d">>, EmptyStr }

NoCall == [base_dir |-> <<>>, selections |-> <<>>, time_str |-> <<>>, server_str |-> <<>>]
NoResult == [raised |-> FALSE, path |-> <<>>]

FolderInit ==
    /\ last_call = NoCall /\ last_ret = NoResult /\ calls = 0

FolderIdle ==
    /\ last_call = NoCall /\ last_ret = NoResult /\ calls = -1

\* a call create_folder(base_dir, selections, time_str, server_str) on a
\* file system that does not fail
CallCreateFolder ==
    /\ calls >= 0 /\ calls < MaxCalls
    /\ \E b \in BaseDirs, sel \in SelectionLists, t \in TimeInputs, sv \in ServerInputs :
         LET made == create_folder(fs, b, sel, t, sv, FALSE)
         IN  /\ last_call' = [base_dir |-> b, selections |-> sel,
                              time_str |-> t, server_str |-> sv]
             /\ last_ret' = [raised |-> made.raised, path |-> made.path]
             /\ fs' = made.fs
    /\ calls' = calls + 1
    /\ UNCHANGED <<legendVars, shellVars>>

FolderNext == CallCreateFolder

\* ---------------------------------------------------------- specifications
\* read_legend on every generated sheet
Init == LegendInit /\ ShellIdle /\ FolderIdle /\ fs = {}
Next == LegendNext
Spec == Init /\ [][Next]_vars

\* read_legend runs to completion: nothing suspends it (single-threaded,
\* synchronous)
LiveSpec == Spec /\ WF_vars(Next)

\* the script's form, for the mappings read_legend returns
ShellSpecInit == LegendIdle /\ ShellInit /\ FolderIdle /\ fs = {}
ShellSpec == ShellSpecInit /\ [][ShellNext]_vars

\* create_folder called directly
FolderSpecInit == LegendIdle /\ ShellIdle /\ FolderInit /\ fs = {}
FolderSpec == FolderSpecInit /\ [][FolderNext]_vars

\* ------------------------------------------------------------- the claims
\* What the specification means by a trimmed string and a blank cell,
\* stated without the operators of the model above.
Ink(x) == { k \in 1..Len(x) : x[k] \notin Whitespace }
Least(S) == CHOOSE a \in S : \A b \in S : a <= b
Greatest(S) == CHOOSE a \in S : \A b \in S : a >= b
Trimmed(x) == IF Ink(x) = {} THEN <<>> ELSE SubSeq(x, Least(Ink(x)), Greatest(Ink(x)))

BlankCell(v) == v.kind = "nan" \/ Ink(v.s) = {}
\* a cell that is not blank and does not trim to "?"
ValidCell(v) == ~BlankCell(v) /\ Trimmed(v.s) # <<"?">>

BlanksIn(col, a, b) == Cardinality({ r \in a..b : BlankCell(At(r, col)) })

\* the trimmed strings of the valid cells of column col, rows a..b, in row order
RECURSIVE ValidValues(_, _, _)
ValidValues(col, a, b) ==
    IF a > b THEN <<>>
    ELSE (IF ValidCell(At(a, col)) THEN << Trimmed(At(a, col).s) >> ELSE <<>>)
             \o ValidValues(col, a + 1, b)

Keys(d) == { d[k].key : k \in DOMAIN d }
Stored(d, key) == (CHOOSE k \in DOMAIN d : d[k].key = key)
KeyName(r) == IF At(r, 1).kind = "nan" THEN <<>> ELSE Trimmed(At(r, 1).s)
WithAbbreviationNames == {FrameVersion, CoreVersion, GasketVersion, Pump}
WithoutAbbreviationNames == {DeviceName, Coolant}
HeaderCell(v) == v.kind = "str" /\ Trimmed(v.s) \in {Abbreviation, Abbrevation}
Terminated == pc \in {"done", "error"}

\* C1: a run of Frame Version, Core Version or Gasket Version stops at a
\* blank cell of its value column exactly when that cell is the second blank
\* since the marker row; the count runs over the whole run and is not reset
\* by the values in between.
C1_SecondBlankStop ==
    /\ \A k \in DOMAIN runs :
         LET run == runs[k] IN
         run.cat \in {FrameVersion, CoreVersion, GasketVersion} =>
            IF run.stop < n
            THEN /\ BlankCell(At(run.stop, run.col))
                 /\ BlanksIn(run.col, run.marker + 1, run.stop) = 2
            ELSE BlanksIn(run.col, run.marker + 1, n - 1) < 2
    /\ (pc = "inner" /\ current_cat \in {FrameVersion, CoreVersion, GasketVersion}) =>
            /\ blank_seen = BlanksIn(use_col, i + 1, j - 1)
            /\ blank_seen < 2

\* a run that passed a blank and then a value, and stopped at the second blank
C1_Witness ==
    \E k \in DOMAIN runs :
        /\ runs[k].cat \in {FrameVersion, CoreVersion, GasketVersion}
        /\ runs[k].stop < n
        /\ \E r \in (runs[k].marker + 1)..(runs[k].stop - 2) :
              /\ BlankCell(At(r, runs[k].col))
              /\ ~BlankCell(At(r + 1, runs[k].col))

\* C2: a run of Device Name, Coolant or Pump stops at the first blank cell of
\* its value column; the list stored for it holds only values of the rows
\* strictly between the marker row and that blank; the scenario's sheet
\* yields {"Device Name": ["Alpha"], "Coolant": ["X", "Y"]}.
C2_FirstBlankStop ==
    /\ \A k \in DOMAIN runs :
         LET run == runs[k] IN
         run.cat \in {DeviceName, Coolant, Pump} =>
            /\ run.stop = n \/ BlankCell(At(run.stop, run.col))
            /\ \A r \in (run.marker + 1)..(run.stop - 1) : ~BlankCell(At(r, run.col))
            /\ \A x \in DOMAIN run.vals :
                  \E r \in (run.marker + 1)..(run.stop - 1) :
                      run.vals[x] = Trimmed(At(r, run.col).s)
            /\ run.cat \in Keys(results)
            /\ (\A m \in DOMAIN runs : (m > k => runs[m].cat # run.cat))
                  => results[Stored(results, run.cat)].vals = run.vals
    /\ (df = ScenarioSheet /\ pc = "done") =>
            returned.value = << [key |-> DeviceName, vals |-> << <<"A", "l", "p", "h", "a">> >>],
                                [key |-> Coolant, vals |-> << <<"X">>, <<"Y">> >>] >>

\* the scenario's sheet parsed to the end
C2_Witness == df = ScenarioSheet /\ pc = "done" /\ Len(runs) = 2

\* C3: every Option List is the row-ordered sequence of the trimmed strings of
\* the non-blank cells of its run that do not trim to "?"; none holds "?" or
\* an empty string.
C3_OptionLists ==
    /\ \A k \in DOMAIN runs :
         runs[k].vals = ValidValues(runs[k].col, runs[k].marker + 1, runs[k].stop - 1)
    /\ \A k \in DOMAIN results : \A x \in DOMAIN results[k].vals :
         results[k].vals[x] \notin { <<"?">>, <<>> }

\* C4: read_legend raises exactly when the sheet has fewer than two columns or
\* the outer scan reaches a with-abbreviation marker whose row has no
\* "Abbreviation"/"Abbrevation" cell, the error naming that row; it then
\* returns nothing; in every other case it returns the mapping.
C4_HeaderlessMarker(r) ==
    /\ KeyName(r) \in WithAbbreviationNames
    /\ ~\E c \in 0..(df.ncols - 1) : HeaderCell(At(r, c))

C4_StructuralError ==
    /\ error.raised <=> pc = "error"
    /\ returned.done <=> pc = "done"
    /\ pc = "error" =>
          \/ error.what = "columns" /\ df.ncols < 2
          \/ /\ error.what = "abbreviation" /\ df.ncols >= 2
             /\ error.row = i /\ i \in visited /\ C4_HeaderlessMarker(i)
    /\ df.ncols < 2 => pc \in {"start", "error"}
    /\ pc \in {"outer", "inner", "done"} => \A r \in visited : ~C4_HeaderlessMarker(r)
    /\ pc = "done" => returned.value = results
    /\ Terminated \/ ENABLED Next

\* a headerless marker met after a run was stored: the mapping built so far
\* is not returned
C4_Witness ==
    /\ pc = "error" /\ error.what = "abbreviation" /\ error.row > 0
    /\ results # <<>> /\ ~returned.done

\* C5: for a with-abbreviation category the value column is the column of
\* the leftmost cell of the marker row that trims to "Abbreviation" or
\* "Abbrevation", the same column as if every "Abbrevation" were spelled
\* "Abbreviation"; for a without-abbreviation category it is column B.
C5_Respelled(v) ==
    IF v.kind = "str" /\ Trimmed(v.s) = Abbrevation THEN StrCell(Abbreviation) ELSE v

C5_ColumnOf(marker, cat, col) ==
    IF cat \in WithAbbreviationNames
    THEN /\ col \in 0..(df.ncols - 1)
         /\ HeaderCell(At(marker, col))
         /\ \A c \in 0..(col - 1) : ~HeaderCell(At(marker, c))
         /\ col = Least({ c \in 0..(df.ncols - 1) :
                            LET v == C5_Respelled(At(marker, c))
                            IN  v.kind = "str" /\ Trimmed(v.s) = Abbreviation })
    ELSE col = 1

C5_ValueColumn ==
    /\ \A k \in DOMAIN runs : C5_ColumnOf(runs[k].marker, runs[k].cat, runs[k].col)
    /\ pc = "inner" => C5_ColumnOf(i, current_cat, use_col)

\* a run read under a misspelled header that stands left of a correctly
\* spelled one
C5_Witness ==
    \E k \in DOMAIN runs :
        /\ runs[k].cat \in WithAbbreviationNames
        /\ Trimmed(At(runs[k].marker, runs[k].col).s) = Abbrevation
        /\ \E c \in (runs[k].col + 1)..(df.ncols - 1) :
              At(runs[k].marker, c).kind = "str"
              /\ Trimmed(At(runs[k].marker, c).s) = Abbreviation
        /\ runs[k].vals # <<>>

\* C6: across any presses of the button, create_folder is called (and the
\* file system changes) only when every selector holds a non-empty choice and
\* the time and server fields hold something besides whitespace; a press in
\* any other state gives the warning and leaves the file system as it was.
C6_Complete ==
    /\ \A k \in DOMAIN selections : selections[k] # <<>>
    /\ Ink(time_input) # {}
    /\ Ink(server_input) # {}

C6_Validation ==
    [][ /\ (fs' # fs \/ (clicks' # clicks /\ message'.kind \in {"success", "error"}))
            => C6_Complete
        /\ (clicks' # clicks /\ ~C6_Complete)
            => (message'.kind = "warning" /\ fs' = fs) ]_vars

\* a folder was made by one press and a later press was refused
C6_Witness == clicks = 2 /\ message.kind = "warning" /\ fs # {}

\* C7: create_folder names the directory selections + trimmed time + trimmed
\* server joined by "_" (the scenario gives
\* "Alpha_X_2025-07-23_14-00_Server01"), the directory exists afterwards, and
\* a second call with the same inputs succeeds, returns the same path and
\* leaves the existing directories as they were.
RECURSIVE C7_Joined(_)
C7_Joined(parts) ==
    IF parts = <<>> THEN <<>>
    ELSE IF Len(parts) = 1 THEN parts[1]
    ELSE C7_Joined(SubSeq(parts, 1, Len(parts) - 1)) \o <<"_">> \o parts[Len(parts)]

C7_ExpectedName(c) ==
    C7_Joined(c.selections \o << Trimmed(c.time_str), Trimmed(c.server_str) >>)

C7_Named(path, name) ==
    /\ Len(path) >= Len(name)
    /\ SubSeq(path, Len(path) - Len(name) + 1, Len(path)) = name
    /\ Len(path) > Len(name) => path[Len(path) - Len(name)] = "/"

C7_ScenarioName ==
    <<"A", "l", "p", "h", "a", "_", "X", "_", "2", "0", "2", "5", "-", "0", "7", "-",
      "2", "3", "_", "1", "4", "-", "0", "0", "_", "S", "e", "r", "v", "e", "r", "0", "1">>

C7_ScenarioCall(c) ==
    /\ c.selections = << <<"A", "l", "p", "h", "a">>, <<"X">> >>
    /\ c.time_str = ScenarioTime
    /\ c.server_str = ScenarioServer

C7_NameAndIdempotence ==
    /\ [](calls >= 1 =>
            /\ ~last_ret.raised
            /\ C7_Named(last_ret.path, C7_ExpectedName(last_call))
            /\ C7_ScenarioCall(last_call) => C7_Named(last_ret.path, C7_ScenarioName)
            /\ Dir(last_ret.path) \in fs)
    /\ [][ (calls >= 1 /\ calls' = calls + 1 /\ last_call' = last_call)
            => (~last_ret'.raised /\ last_ret'.path = last_ret.path /\ fs' = fs) ]_vars

\* the scenario's call made twice: only its directory (and the base
\* directory) exist
C7_Witness ==
    /\ calls = 2 /\ C7_ScenarioCall(last_call) /\ last_call.base_dir = <<"/", "d">>
    /\ Cardinality(fs) = 2

\* C8: a category marker whose run has no valid value (no cell that is
\* non-blank and does not trim to "?") is stored as a key with an empty list;
\* a run cut off by the end of the table stores the valid values up to the
\* last row.
C8_EmptyAndTruncatedRuns ==
    \A k \in DOMAIN runs :
        LET run == runs[k] IN
        /\ run.cat \in Keys(results)
        /\ (\A r \in (run.marker + 1)..(run.stop - 1) : ~ValidCell(At(r, run.col)))
              => run.vals = <<>>
        /\ run.stop = n => run.vals = ValidValues(run.col, run.marker + 1, n - 1)

\* C9: the outer cursor never moves back and never passes n; a non-marker or
\* skip row advances it by 1, a run moves it to the stop row j with
\* marker row < j <= n, j being the terminating blank row or n; the parse
\* ends with a mapping or an error.
C9_ForwardPass ==
    /\ [][ /\ i' >= i
           /\ pc' # "start" => i' <= n'
           /\ (pc = "outer" /\ pc' = "outer") => i' = i + 1
           /\ (pc = "inner" /\ pc' = "inner") => (i' = i /\ j' = j + 1)
           /\ (pc = "inner" /\ pc' = "outer") =>
                 /\ i' = j /\ i < i' /\ i' <= n
                 /\ (i' = n \/ BlankCell(At(i', use_col))) ]_vars
    /\ <>Terminated

\* a parse that stored a run stopped by a blank row and went on to the end
C9_Witness ==
    /\ pc = "done" /\ i = n
    /\ \E k \in DOMAIN runs : runs[k].stop < n /\ runs[k].stop > runs[k].marker + 1

\* C10: every key is a with- or without-abbreviation name, never a SKIP name,
\* found (trimmed) in column B at a row the outer cursor visited; a row
\* consumed by a run is never visited and starts no run, and a category
\* name on such a row of a without-abbreviation run is one of that run's
\* values.
C10_Consumed(run) == (run.marker + 1)..(run.stop - 1)

C10_Keys ==
    /\ \A k \in DOMAIN results :
          /\ results[k].key \in WithAbbreviationNames \cup WithoutAbbreviationNames
          /\ results[k].key \notin {OCCTVersion, OCCTTestSetting, FanSettings, CPUModel}
          /\ \E r \in visited : KeyName(r) = results[k].key
          /\ \A m \in DOMAIN results : results[m].key = results[k].key => m = k
    /\ \A k \in DOMAIN runs :
          /\ runs[k].marker \in visited
          /\ \A r \in C10_Consumed(runs[k]) :
                /\ r \notin visited
                /\ \A m \in DOMAIN runs : runs[m].marker # r
                /\ (runs[k].cat \in WithoutAbbreviationNames
                      /\ KeyName(r) \in WithAbbreviationNames \cup WithoutAbbreviationNames)
                    => \E x \in DOMAIN runs[k].vals : runs[k].vals[x] = KeyName(r)
    /\ pc = "inner" => \A r \in (i + 1)..(j - 1) : r \notin visited

\* a finished parse in which a category name on a consumed row of a
\* without-abbreviation run became a value and not a key
C10_Witness ==
    /\ pc = "done"
    /\ \E k \in DOMAIN runs : \E r \in C10_Consumed(runs[k]) :
          /\ runs[k].cat \in WithoutAbbreviationNames
          /\ KeyName(r) \in WithAbbreviationNames \cup WithoutAbbreviationNames
          /\ KeyName(r) \notin Keys(returned.value)
====
